---- MODULE Spec2Model ----
(***************************************************************************)
(* Model of the SDGKU dashboard (src/app.py, with the wide-table variant   *)
(* src/app2.py): the teacher-assignment store and its configuration file,  *)
(* the persisted master schedule with its cached loader, and the           *)
(* derivation of calendar events.                                          *)
(*                                                                         *)
(* A Python str is modelled as a sequence of one-character strings, so     *)
(* that strip(), upper(), lower(), substring tests and the regular         *)
(* expressions of the source are computed, not assumed.                    *)
(***************************************************************************)
EXTENDS Integers, Sequences, FiniteSets, TLC

VARIABLES
    event_colors,         \* st.session_state.event_colors
    teacher_assignments,  \* st.session_state.teacher_assignments
    all_known_teachers,   \* st.session_state.all_known_teachers
    config_file,          \* config.json: [exists, content, data]
    lastMerge,            \* history: store before / delta of the last update
    master_file,          \* content of master_schedule.csv
    cache,                \* st.cache_data entry of load_master_schedule
    master_schedule_df,   \* the session's loaded data frame
    writer,               \* append_to_master_schedule in progress
    lastAppend,           \* history: outcome of the last append
    sel,                  \* sidebar selections
    view,                 \* what the calendar tab rendered
    call                  \* a function of the program applied on its own

vars == <<event_colors, teacher_assignments, all_known_teachers, config_file,
          lastMerge, master_file, cache, master_schedule_df, writer,
          lastAppend, sel, view, call>>

configVars == <<event_colors, teacher_assignments, all_known_teachers,
                config_file, lastMerge>>
storeVars == <<master_file, cache, master_schedule_df, writer, lastAppend>>
viewVars == <<sel, view>>

\* no function applied on its own, or the argument one is to be applied to
NoCall == [fn |-> "none", arg |-> <<>>, result |-> <<>>]

----------------------------------------------------------------------------
(* Python str operations *)

LowerAlpha == <<"a","b","c","d","e","f","g","h","i","j","k","l","m",
                "n","o","p","q","r","s","t","u","v","w","x","y","z">>
UpperAlpha == <<"A","B","C","D","E","F","G","H","I","J","K","L","M",
                "N","O","P","Q","R","S","T","U","V","W","X","Y","Z">>

AlphaIndex(c, alpha) == CHOOSE i \in 1..Len(alpha) : alpha[i] = c
IsLowerCh(c) == \E i \in 1..Len(LowerAlpha) : LowerAlpha[i] = c
IsUpperCh(c) == \E i \in 1..Len(UpperAlpha) : UpperAlpha[i] = c
IsDigitCh(c) == c \in {"0","1","2","3","4","5","6","7","8","9"}
IsSpaceCh(c) == c \in {" ", "\t"}
IsWordCh(c) == IsLowerCh(c) \/ IsUpperCh(c) \/ IsDigitCh(c) \/ c = "_"

UpperCh(c) == IF IsLowerCh(c) THEN UpperAlpha[AlphaIndex(c, LowerAlpha)] ELSE c
LowerCh(c) == IF IsUpperCh(c) THEN LowerAlpha[AlphaIndex(c, UpperAlpha)] ELSE c

StrUpper(s) == [i \in 1..Len(s) |-> UpperCh(s[i])]
StrLower(s) == [i \in 1..Len(s) |-> LowerCh(s[i])]

MinOf(S) == CHOOSE x \in S : \A y \in S : x <= y
MaxOf(S) == CHOOSE x \in S : \A y \in S : x >= y

StrStrip(s) ==
    LET solid == {i \in 1..Len(s) : ~IsSpaceCh(s[i])}
    IN  IF solid = {} THEN <<>> ELSE SubSeq(s, MinOf(solid), MaxOf(solid))

StrContains(s, sub) ==
    \E i \in 1..(Len(s) - Len(sub) + 1) : SubSeq(s, i, i + Len(sub) - 1) = sub

StartsWith(s, p) == Len(s) >= Len(p) /\ SubSeq(s, 1, Len(p)) = p

\* number of tokens of s.split()
SplitCount(s) ==
    Cardinality({i \in 1..Len(s) :
        ~IsSpaceCh(s[i]) /\ (i = 1 \/ IsSpaceCh(s[i - 1]))})

\* length of the run of digits s starts with
LeadingDigits(s) ==
    IF \A i \in 1..Len(s) : IsDigitCh(s[i]) THEN Len(s)
    ELSE MinOf({i \in 1..Len(s) : ~IsDigitCh(s[i])}) - 1

\* values that are not a str
NaN == <<"float:nan">>
None == <<"NoneType">>

\* str(x) of a data-frame cell
Str(x) == IF x = NaN THEN <<"n","a","n">> ELSE x

EmptyDict == [k \in {} |-> k]

\* d.update(e)
DictUpdate(d, e) ==
    [k \in (DOMAIN d) \cup (DOMAIN e) |-> IF k \in DOMAIN e THEN e[k] ELSE d[k]]

\* d[k] = v
DictSet(d, k, v) == [j \in (DOMAIN d) \cup {k} |-> IF j = k THEN v ELSE d[j]]

\* the characters of the model's texts in code point order
CodePointOrder ==
    <<"\t", " ", "(", ")", ",", "-", ".", "/",
      "0","1","2","3","4","5","6","7","8","9", ":">>
    \o UpperAlpha \o <<"_">> \o LowerAlpha

Ord(c) == CHOOSE i \in 1..Len(CodePointOrder) : CodePointOrder[i] = c

\* a < b for two str
StrLess(a, b) ==
    \E i \in 1..(Len(b)) :
        /\ \A j \in 1..(i - 1) : j <= Len(a) /\ a[j] = b[j]
        /\ (i > Len(a) \/ Ord(a[i]) < Ord(b[i]))

\* sorted(list(S)) for a set of str
RECURSIVE SortedList(_)
SortedList(S) ==
    IF S = {} THEN <<>>
    ELSE LET least == CHOOSE x \in S : \A y \in S \ {x} : StrLess(x, y)
         IN  <<least>> \o SortedList(S \ {least})

\* set(l) for a list
SetOfList(l) == {l[i] : i \in 1..Len(l)}

----------------------------------------------------------------------------
(* Texts the model draws its inputs from *)

T_Empty == <<>>
T_Cohort52 == <<"C","o","h","o","r","t"," ","5","2">>
T_Ch54 == <<"F","S","D","I"," ","C","h"," ","5","4">>
T_101Sam == <<"1","0","1","\t","S","a","m">>
T_101Alex == <<"1","0","1"," ","A","l","e","x">>
T_102Jordan == <<"1","0","2","\t","J","o","r","d","a","n">>
T_Sam == <<"S","a","m">>
T_Alex == <<"A","l","e","x">>
T_Jordan == <<"J","o","r","d","a","n">>
T_101 == <<"1","0","1">>
T_102 == <<"1","0","2">>
T_Unassigned == <<"U","n","a","s","s","i","g","n","e","d">>

\* lines a pasted teacher-assignment block is made of
TeacherLines == {T_Cohort52, T_Ch54, T_101Sam, T_101Alex, T_102Jordan}

MaxBlockLines == 3

\* the pasted blocks, as raw_data.splitlines(); the empty block is no text
TeacherBlocks ==
    UNION {[1..n -> TeacherLines] : n \in 0..MaxBlockLines}

----------------------------------------------------------------------------
(* Teacher-assignment parsing *)

\* re.match(r"^\d{3}\s", line)
StartsWithUnitNumber(line) ==
    /\ Len(line) >= 4
    /\ \A i \in 1..3 : IsDigitCh(line[i])
    /\ IsSpaceCh(line[4])

IsCohortHeader(line) ==
    /\ \/ StartsWith(StrUpper(line), <<"C","O","H","O","R","T"," ">>)
       \/ StrContains(StrUpper(line), <<"C","H"," ">>)
       \/ StrContains(StrUpper(line), <<"C","H",".">>)
    /\ ~StrContains(line, <<"\t">>)
    /\ ~StartsWithUnitNumber(line)

IsAssignmentLine(line) ==
    StrContains(line, <<"\t">>) \/ SplitCount(line) >= 2

\* re.split(r'\s+|\t', line, 1)
SplitFirstSpace(line) ==
    LET ws == {i \in 1..Len(line) : IsSpaceCh(line[i])}
    IN  IF ws = {} THEN <<line>>
        ELSE LET a == MinOf(ws)
                 after == {i \in a..Len(line) : ~IsSpaceCh(line[i])}
             IN  <<SubSeq(line, 1, a - 1),
                   IF after = {} THEN <<>>
                   ELSE SubSeq(line, MinOf(after), Len(line))>>

UnitKeyOf(unit) ==
    IF LeadingDigits(unit) > 0 THEN SubSeq(unit, 1, LeadingDigits(unit)) ELSE unit

\* one iteration of the loop over the lines
ParseTeacherLine(acc, rawline) ==
    LET line == StrStrip(rawline)
    IN  IF line = <<>> THEN acc
        ELSE IF IsCohortHeader(line)
        THEN [acc EXCEPT !.current_cohort = line,
                         !.assignments = DictSet(@, line, EmptyDict)]
        ELSE IF acc.current_cohort # None /\ IsAssignmentLine(line)
        THEN LET parts == SplitFirstSpace(line)
             IN  IF Len(parts) = 2
                    /\ StrStrip(parts[1]) # <<>> /\ StrStrip(parts[2]) # <<>>
                 THEN LET unit == StrStrip(parts[1])
                          teacher == StrStrip(parts[2])
                          c == acc.current_cohort
                      IN  [acc EXCEPT
                             !.assignments =
                                 DictSet(@, c, DictSet(@[c], UnitKeyOf(unit), teacher)),
                             !.teachers_found = @ \cup {teacher}]
                 ELSE acc
        ELSE acc

RECURSIVE ParseTeacherLines(_, _, _)
ParseTeacherLines(lines, i, acc) ==
    IF i > Len(lines) THEN acc
    ELSE ParseTeacherLines(lines, i + 1, ParseTeacherLine(acc, lines[i]))

\* returns the record of (assignments, teachers_found)
parse_teacher_assignment_data(raw_data) ==
    ParseTeacherLines(raw_data, 1,
        [assignments |-> EmptyDict, current_cohort |-> None, teachers_found |-> {}])

----------------------------------------------------------------------------
(* Configuration *)

get_default_colors ==
    [k \in {"FSDI", "MDI1", "MDI2", "ORIENTATION", "DEFAULT"} |->
        CASE k = "FSDI" -> "#1f77b4"
          [] k = "MDI1" -> "#ff7f0e"
          [] k = "MDI2" -> "#2ca02c"
          [] k = "ORIENTATION" -> "#d62728"
          [] k = "DEFAULT" -> "#7f7f7f"]

\* config_data of save_config: what json.dump writes to config.json
save_config(colors, assignments, teachers) ==
    [event_colors |-> colors, teacher_assignments |-> assignments,
     all_known_teachers |-> SortedList(teachers)]

\* config.json after a save: a JSON object
SavedConfigFile(colors, assignments, teachers) ==
    [exists |-> TRUE, content |-> "object",
     data |-> save_config(colors, assignments, teachers)]

\* what each pasted block parses to, computed once
ParsedTeacherBlocks ==
    {[raw_data |-> b, parsed |-> parse_teacher_assignment_data(b)] :
        b \in TeacherBlocks}

NoMerge == [before |-> EmptyDict, delta |-> EmptyDict, found |-> {}]

\* the store after st.session_state.teacher_assignments.update(parsed)
MergeAssignments(store, parsed_assignments) == DictUpdate(store, parsed_assignments)

KnownAfterUpdate_Replaced(known, teachers_found) == teachers_found

KnownAfterUpdate_NothingAdded(known, teachers_found) == known

\* st.session_state.all_known_teachers.update(teachers_found)
KnownAfterUpdate(known, teachers_found) == known \cup teachers_found

\* "Update Teacher Assignments From Text" pressed with text in the area;
\* parsed is parse_teacher_assignment_data(raw_data)
UpdateTeacherAssignments(raw_data, parsed) ==
    /\ raw_data # <<>>
    /\ teacher_assignments' = MergeAssignments(teacher_assignments, parsed.assignments)
    /\ all_known_teachers' = KnownAfterUpdate(all_known_teachers, parsed.teachers_found)
    /\ config_file' = SavedConfigFile(event_colors, teacher_assignments',
                                       all_known_teachers')
    /\ lastMerge' = [before |-> teacher_assignments,
                     delta |-> parsed.assignments,
                     found |-> parsed.teachers_found]
    /\ UNCHANGED event_colors
    /\ UNCHANGED <<storeVars, viewVars, call>>

\* the button pressed with an empty text area: a warning, nothing changes
UpdateTeacherAssignmentsNoText ==
    /\ UNCHANGED <<configVars, storeVars, viewVars, call>>

----------------------------------------------------------------------------
(* Dates *)

DigitVal(c) ==
    CASE c = "0" -> 0 [] c = "1" -> 1 [] c = "2" -> 2 [] c = "3" -> 3
      [] c = "4" -> 4 [] c = "5" -> 5 [] c = "6" -> 6 [] c = "7" -> 7
      [] c = "8" -> 8 [] c = "9" -> 9

RECURSIVE NumVal(_)
NumVal(ds) ==
    IF ds = <<>> THEN 0
    ELSE 10 * NumVal(SubSeq(ds, 1, Len(ds) - 1)) + DigitVal(ds[Len(ds)])

AllDigits(s) == \A i \in 1..Len(s) : IsDigitCh(s[i])

\* s.split(sep) for a one-character separator
SplitOn(s, sep) ==
    LET cuts == {i \in 1..Len(s) : s[i] = sep}
        n == Cardinality(cuts)
        bound[k \in 0..(n + 1)] ==
            IF k = 0 THEN 0
            ELSE IF k = n + 1 THEN Len(s) + 1
            ELSE MinOf({i \in cuts : i > bound[k - 1]})
    IN  [k \in 1..(n + 1) |-> SubSeq(s, bound[k - 1] + 1, bound[k] - 1)]

NoDate == [y |-> 0, m |-> 0, d |-> 0]

IsLeap(y) == (y % 4 = 0 /\ y % 100 # 0) \/ y % 400 = 0

DaysIn(y, m) ==
    IF m = 2 THEN (IF IsLeap(y) THEN 29 ELSE 28)
    ELSE IF m \in {4, 6, 9, 11} THEN 30 ELSE 31

\* the directive %m: 1[0-2]|0[1-9]|[1-9]
MonthToken(t) ==
    /\ Len(t) \in {1, 2} /\ AllDigits(t)
    /\ NumVal(t) \in 1..12

\* the directive %d: 3[01]|[12]\d|0[1-9]|[1-9]| [1-9]
DayToken(t) ==
    \/ Len(t) \in {1, 2} /\ AllDigits(t) /\ NumVal(t) \in 1..31
    \/ Len(t) = 2 /\ t[1] = " " /\ IsDigitCh(t[2]) /\ t[2] # "0"

DayVal(t) == IF t[1] = " " THEN DigitVal(t[2]) ELSE NumVal(t)

\* datetime.strptime(s, "%m/%d/%Y").date() (long = TRUE) or with "%m/%d/%y";
\* NoDate stands for the ValueError
Strptime(s, long) ==
    LET parts == SplitOn(s, "/")
    IN  IF Len(parts) # 3 THEN NoDate
        ELSE IF ~(MonthToken(parts[1]) /\ DayToken(parts[2])) THEN NoDate
        ELSE IF ~(AllDigits(parts[3]) /\ Len(parts[3]) = (IF long THEN 4 ELSE 2))
        THEN NoDate
        ELSE LET n == NumVal(parts[3])
                 y == IF long THEN n ELSE IF n <= 68 THEN 2000 + n ELSE 1900 + n
                 m == NumVal(parts[1])
                 d == DayVal(parts[2])
             IN  IF y >= 1 /\ d <= DaysIn(y, m)
                 THEN [y |-> y, m |-> m, d |-> d] ELSE NoDate

parse_master_schedule_date_string(date_str) ==
    IF date_str = NaN \/ StrStrip(Str(date_str)) = <<>> THEN NoDate
    ELSE LET clean == StrStrip(Str(date_str))
         IN  IF Strptime(clean, TRUE) # NoDate THEN Strptime(clean, TRUE)
             ELSE Strptime(clean, FALSE)

----------------------------------------------------------------------------
(* Master schedule: the persisted file and its loader *)

T_nan == <<"n","a","n">>

\* what pd.read_csv reads as a missing value (its default na_values)
NAStrings == {<<>>, T_nan, <<"N","a","N">>, <<"N","A">>, <<"N","/","A">>,
              <<"n","/","a">>, <<"N","U","L","L">>, <<"n","u","l","l">>,
              <<"N","o","n","e">>}

ReadCsvCell_KeepText(text) == text

ReadCsvCell(text) == IF text \in NAStrings THEN NaN ELSE text

\* master_schedule.csv: header is "ok" (the three required columns), "bad"
\* (a required column is missing), "none" (a file of no bytes) or
\* "undecodable" (pd.read_csv raises)
AbsentFile == [exists |-> FALSE, header |-> "none", rows |-> <<>>]
TruncatedFile == [exists |-> TRUE, header |-> "none", rows |-> <<>>]
BadColumnsFile == [exists |-> TRUE, header |-> "bad", rows |-> <<>>]
UndecodableFile == [exists |-> TRUE, header |-> "undecodable", rows |-> <<>>]

\* pd.read_csv(MASTER_SCHEDULE_FILE, dtype=str) of a file with the columns
ReadCsvRows(file) ==
    [i \in 1..Len(file.rows) |->
        [OriginalDateString |-> ReadCsvCell(file.rows[i].OriginalDateString),
         CohortName |-> ReadCsvCell(file.rows[i].CohortName),
         UnitActivity |-> ReadCsvCell(file.rows[i].UnitActivity)]]

\* dates compared as (year, month, day)
DateLeq(a, b) ==
    \/ a.y < b.y
    \/ a.y = b.y /\ a.m < b.m
    \/ a.y = b.y /\ a.m = b.m /\ a.d <= b.d

\* pd.to_datetime(..., errors='coerce') of a parsed date or None: a date that
\* a nanosecond Timestamp cannot hold (before 1677-09-22 or after 2262-04-11)
\* becomes NaT, as None does; NoDate stands for NaT
to_datetime_coerce(dt) ==
    IF dt = NoDate THEN NoDate
    ELSE IF DateLeq([y |-> 1677, m |-> 9, d |-> 22], dt)
            /\ DateLeq(dt, [y |-> 2262, m |-> 4, d |-> 11])
    THEN dt ELSE NoDate

HasParsedDate(r) == r.ParsedDate # NoDate

\* the body of load_master_schedule: the frame it computes from the file
LoadFromFile(file) ==
    IF ~file.exists \/ file.header # "ok" THEN <<>>
    ELSE LET raw == ReadCsvRows(file)
             df == [i \in 1..Len(raw) |->
                     [OriginalDateString |-> raw[i].OriginalDateString,
                      CohortName |-> raw[i].CohortName,
                      UnitActivity |-> raw[i].UnitActivity,
                      ParsedDate |-> to_datetime_coerce(
                          parse_master_schedule_date_string(raw[i].OriginalDateString))]]
         IN  SelectSeq(df, HasParsedDate)

NoCache == [valid |-> FALSE, df |-> <<>>]

\* a loader whose cache entry is the frame before rows without a date are dropped
load_master_schedule_CachesUncleaned(file, c) ==
    IF c.valid THEN [df |-> c.df, cache |-> c, read |-> FALSE]
    ELSE [df |-> LoadFromFile(file),
          cache |-> [valid |-> TRUE,
                     df |-> [i \in 1..Len(ReadCsvRows(file)) |->
                               [OriginalDateString |-> ReadCsvRows(file)[i].OriginalDateString,
                                CohortName |-> ReadCsvRows(file)[i].CohortName,
                                UnitActivity |-> ReadCsvRows(file)[i].UnitActivity,
                                ParsedDate |-> NoDate]]],
          read |-> TRUE]

\* load_master_schedule() behind st.cache_data: the frame returned, the cache
\* afterwards, and whether the file was read
load_master_schedule(file, c) ==
    IF c.valid THEN [df |-> c.df, cache |-> c, read |-> FALSE]
    ELSE [df |-> LoadFromFile(file),
          cache |-> [valid |-> TRUE, df |-> LoadFromFile(file)],
          read |-> TRUE]

\* st.cache_data.clear()
ClearCache == NoCache

----------------------------------------------------------------------------
(* Pasted schedule text and append *)

IsBlank(line) == StrStrip(line) = <<>>

\* raw_text_input.strip().split('\n'), the text given as its lines
StripSplit(text) ==
    LET solid == {i \in 1..Len(text) : ~IsBlank(text[i])}
    IN  IF solid = {} THEN << <<>> >>
        ELSE SubSeq(text, MinOf(solid), MaxOf(solid))

\* re.match(r'\d{1,2}/\d{1,2}/\d{2,4}', s)
DateLike(s) ==
    LET a == LeadingDigits(s)
        rest == SubSeq(s, a + 2, Len(s))
        b == LeadingDigits(rest)
        tail == SubSeq(rest, b + 2, Len(rest))
    IN  /\ a \in {1, 2} /\ Len(s) > a /\ s[a + 1] = "/"
        /\ b \in {1, 2} /\ Len(rest) > b /\ rest[b + 1] = "/"
        /\ LeadingDigits(tail) >= 2

\* the entry a schedule line gives, as a sequence of zero or one rows
ScheduleLineEntry(cohort_name, rawline) ==
    LET parts == SplitOn(StrStrip(rawline), "\t")
        date_str ==
            IF Len(parts) = 3 THEN StrStrip(parts[2])
            ELSE IF Len(parts) = 2 /\ DateLike(StrStrip(parts[1]))
            THEN StrStrip(parts[1]) ELSE <<>>
        unit_activity ==
            IF Len(parts) = 3 THEN StrStrip(parts[3])
            ELSE IF Len(parts) = 2 THEN StrStrip(parts[2]) ELSE <<>>
    IN  IF date_str # <<>>
        THEN << [OriginalDateString |-> date_str, CohortName |-> cohort_name,
                 UnitActivity |-> unit_activity] >>
        ELSE <<>>

RECURSIVE ScheduleEntries(_, _, _)
ScheduleEntries(cohort_name, lines, i) ==
    IF i > Len(lines) THEN <<>>
    ELSE ScheduleLineEntry(cohort_name, lines[i])
             \o ScheduleEntries(cohort_name, lines, i + 1)

parse_new_cohort_schedule_input(raw_text_input) ==
    LET lines == StripSplit(raw_text_input)
        cohort_name == StrStrip(lines[1])
    IN  IF cohort_name = <<>> THEN <<>>
        ELSE ScheduleEntries(cohort_name, lines, 2)

\* the rows with each repeated row kept once, the first
RECURSIVE DropDuplicates(_)
DropDuplicates(rows) ==
    IF rows = <<>> THEN <<>>
    ELSE LET front == DropDuplicates(SubSeq(rows, 1, Len(rows) - 1))
             last == rows[Len(rows)]
         IN  IF \E i \in 1..Len(front) : front[i] = last THEN front
             ELSE Append(front, last)

UpdatedRows_Deduplicated(file, new_data) ==
    LET rows == IF file.exists /\ file.header = "ok"
                THEN ReadCsvRows(file) \o new_data ELSE new_data
    IN  DropDuplicates([i \in 1..Len(rows) |->
            [OriginalDateString |-> Str(rows[i].OriginalDateString),
             CohortName |-> Str(rows[i].CohortName),
             UnitActivity |-> Str(rows[i].UnitActivity)]])

\* updated_df of append_to_master_schedule, columns converted with astype(str)
UpdatedRows(file, new_data) ==
    LET rows == IF file.exists /\ file.header = "ok"
                THEN ReadCsvRows(file) \o new_data ELSE new_data
    IN  [i \in 1..Len(rows) |->
            [OriginalDateString |-> Str(rows[i].OriginalDateString),
             CohortName |-> Str(rows[i].CohortName),
             UnitActivity |-> Str(rows[i].UnitActivity)]]

\* the file updated_df.to_csv(MASTER_SCHEDULE_FILE, index=False) leaves
WrittenFile(rows) == [exists |-> TRUE, header |-> "ok", rows |-> rows]

T_Mon_0314_FSDI101 ==
    <<"M","o","n","\t","0","3","/","1","4","/","2","0","2","5","\t",
      "F","S","D","I"," ","1","0","1">>
T_0315_Orientation ==
    <<"0","3","/","1","5","/","2","5","\t",
      "O","r","i","e","n","t","a","t","i","o","n">>
T_Tue_TBD_MDI205 ==
    <<"T","u","e","\t","T","B","D","\t","M","D","I","-","1"," ","2","0","5">>

ScheduleLines == {T_Mon_0314_FSDI101, T_0315_Orientation, T_Tue_TBD_MDI205}

MaxPasteLines == 1
MaxFileRows == 2

\* pasted schedule texts: a cohort line, then schedule lines; or nothing
ScheduleTexts ==
    {<<>>} \cup
    UNION {{<<T_Cohort52>> \o body : body \in [1..n -> ScheduleLines]} :
              n \in 0..MaxPasteLines}

\* the entries each pasted text parses to, computed once
ParsedScheduleTexts ==
    {[text |-> t, new_df |-> parse_new_cohort_schedule_input(t)] :
        t \in ScheduleTexts}

ParsedScheduleText(text) ==
    (CHOOSE pt \in ParsedScheduleTexts : pt.text = text).new_df

\* writer: the append in progress (pc = "writing") or the last one begun;
\* pre and post are the file before it and the file it writes, new the
\* entries it appends
IdleWriter == [pc |-> "idle", pre |-> AbsentFile, post |-> AbsentFile, new |-> <<>>]
NoAppend == [result |-> "none", fresh |-> FALSE]

\* a script run of any session: the load at the top of the script
Rerun ==
    /\ LET L == load_master_schedule(master_file, cache)
       IN  /\ master_schedule_df' = L.df
           /\ cache' = L.cache
    /\ lastAppend' = [lastAppend EXCEPT !.fresh = FALSE]
    /\ UNCHANGED <<master_file, writer>>
    /\ UNCHANGED <<configVars, viewVars, call>>

\* the cached entry of load_master_schedule passes its ttl
CacheExpire ==
    /\ cache.valid
    /\ cache' = NoCache
    /\ lastAppend' = [lastAppend EXCEPT !.fresh = FALSE]
    /\ UNCHANGED <<master_file, master_schedule_df, writer>>
    /\ UNCHANGED <<configVars, viewVars, call>>

\* "Add This Schedule to Master File" with no text, or text that gives no
\* entry: the script's load, then a warning
AddScheduleNoData(text) ==
    /\ writer.pc = "idle"
    /\ text = <<>> \/ ParsedScheduleText(text) = <<>>
    /\ LET L == load_master_schedule(master_file, cache)
       IN  /\ master_schedule_df' = L.df
           /\ cache' = L.cache
    /\ lastAppend' = [lastAppend EXCEPT !.fresh = FALSE]
    /\ UNCHANGED <<master_file, writer>>
    /\ UNCHANGED <<configVars, viewVars, call>>

\* the same button with entries parsed: the script's load, then
\* append_to_master_schedule up to opening the file for writing
AddScheduleBegin(text) ==
    /\ writer.pc = "idle"
    /\ text # <<>>
    /\ ParsedScheduleText(text) # <<>>
    /\ LET new_df == ParsedScheduleText(text)
           L == load_master_schedule(master_file, cache)
           updated == UpdatedRows(master_file, new_df)
       IN  /\ Len(updated) <= MaxFileRows
           /\ master_schedule_df' = L.df
           /\ cache' = L.cache
           /\ writer' = [pc |-> "writing", pre |-> master_file,
                         post |-> WrittenFile(updated), new |-> new_df]
           /\ master_file' = TruncatedFile
    /\ lastAppend' = [lastAppend EXCEPT !.fresh = FALSE]
    /\ UNCHANGED <<configVars, viewVars, call>>

\* to_csv writes the header, then the next row
AppendWrite ==
    /\ writer.pc = "writing"
    /\ master_file # writer.post
    /\ master_file' =
          IF master_file.header # "ok" THEN WrittenFile(<<>>)
          ELSE WrittenFile(Append(master_file.rows,
                                  writer.post.rows[Len(master_file.rows) + 1]))
    /\ UNCHANGED <<cache, master_schedule_df, writer, lastAppend>>
    /\ UNCHANGED <<configVars, viewVars, call>>

\* the cache left as it is, as if st.cache_data.clear() were not called
CacheAfterAppend_NotCleared(c) == c

\* the cache as append_to_master_schedule leaves it on success
CacheAfterAppend(c) == ClearCache

\* the write is complete: the cache is cleared, True is returned, and the
\* handler reloads the frame
AppendFinish ==
    /\ writer.pc = "writing"
    /\ master_file = writer.post
    /\ LET L == load_master_schedule(master_file, CacheAfterAppend(cache))
       IN  /\ master_schedule_df' = L.df
           /\ cache' = L.cache
    /\ writer' = [writer EXCEPT !.pc = "idle"]
    /\ lastAppend' = [result |-> "success", fresh |-> TRUE]
    /\ UNCHANGED master_file
    /\ UNCHANGED <<configVars, viewVars, call>>

\* the write raises part-way: False is returned, "Failed to add data."
AppendFail ==
    /\ writer.pc = "writing"
    /\ master_file # writer.post
    /\ writer' = [writer EXCEPT !.pc = "idle"]
    /\ lastAppend' = [result |-> "failure", fresh |-> FALSE]
    /\ UNCHANGED <<master_file, cache, master_schedule_df>>
    /\ UNCHANGED <<configVars, viewVars, call>>

NoConfigFile == [exists |-> FALSE, content |-> "none", data |-> EmptyDict]
NoSel == [cohorts |-> {}, units |-> {}, teachers |-> {}, year |-> 0, month |-> 0]
NoView == [message |-> "none", events |-> <<>>]

InitConfigDefault ==
    /\ event_colors = get_default_colors
    /\ teacher_assignments = EmptyDict
    /\ all_known_teachers = {}
    /\ config_file = NoConfigFile
    /\ lastMerge = NoMerge

InitViewNone ==
    /\ sel = NoSel
    /\ view = NoView
    /\ call = NoCall

InitStore ==
    /\ master_file \in {AbsentFile, BadColumnsFile, UndecodableFile}
    /\ cache = NoCache
    /\ master_schedule_df = <<>>
    /\ writer = IdleWriter
    /\ lastAppend = NoAppend

InitStoreSpec == InitConfigDefault /\ InitStore /\ InitViewNone

NextStore ==
    \/ Rerun
    \/ CacheExpire
    \/ \E text \in ScheduleTexts : AddScheduleNoData(text)
    \/ \E text \in ScheduleTexts : AddScheduleBegin(text)
    \/ AppendWrite
    \/ AppendFinish
    \/ AppendFail

SpecStore == InitStoreSpec /\ [][NextStore]_vars

----------------------------------------------------------------------------
(* Schedule store: claims *)

RangeOf(seq) == {seq[i] : i \in 1..Len(seq)}
CountIn(seq, x) == Cardinality({i \in 1..Len(seq) : seq[i] = x})

\* the frame row an entry is expected to come back as
LoadedRow(e) ==
    [OriginalDateString |-> e.OriginalDateString, CohortName |-> e.CohortName,
     UnitActivity |-> e.UnitActivity,
     ParsedDate |-> parse_master_schedule_date_string(e.OriginalDateString)]

LoadedRows(entries) == [i \in 1..Len(entries) |-> LoadedRow(entries[i])]

\* C2: when append_to_master_schedule has returned success, the cached load
\* is gone: the load that follows returns what the persisted file, which ends
\* with the new entries, parses to, and never the frame cached before.
C2_AppendInvalidatesCache ==
    lastAppend.fresh =>
        /\ master_file = writer.post
        /\ Len(master_file.rows) >= Len(writer.new)
        /\ SubSeq(master_file.rows,
                  Len(master_file.rows) - Len(writer.new) + 1,
                  Len(master_file.rows)) = writer.new
        /\ master_schedule_df = LoadFromFile(master_file)
        /\ cache = [valid |-> TRUE, df |-> LoadFromFile(master_file)]

\* an append has succeeded whose reload differs from the pre-append frame
C2_Witness ==
    /\ lastAppend.fresh
    /\ Len(LoadFromFile(writer.pre)) > 0
    /\ Len(master_schedule_df) > Len(LoadFromFile(writer.pre))

\* C3: after a successful append, the reloaded frame contains every entry
\* the file loaded to before the append and every appended entry, each with
\* the date its raw string parses to.
C3_RoundTrip ==
    lastAppend.fresh =>
        LET before == LoadFromFile(writer.pre)
            added == LoadedRows(writer.new)
        IN  \A r \in RangeOf(before) \cup RangeOf(added) :
                CountIn(master_schedule_df, r)
                    >= CountIn(before, r) + CountIn(added, r)

AppendBegun == writer # IdleWriter

\* C4: a load that reads the file while or after an append observes the
\* entries of the file as it was before that append, or of the file as that
\* append leaves it when complete.
C4_NoHalfWrittenRead ==
    [][(AppendBegun /\ ~cache.valid /\ cache'.valid)
          => LoadFromFile(master_file)
                 \in {LoadFromFile(writer.pre), LoadFromFile(writer.post)}]_vars

----------------------------------------------------------------------------
(* Teacher-assignment store *)

InitStoreIdle ==
    /\ master_file = AbsentFile
    /\ cache = NoCache
    /\ master_schedule_df = <<>>
    /\ writer = IdleWriter
    /\ lastAppend = NoAppend

InitTeachers == InitConfigDefault /\ InitStoreIdle /\ InitViewNone

NextTeachers ==
    \/ \E pb \in ParsedTeacherBlocks : UpdateTeacherAssignments(pb.raw_data, pb.parsed)
    \/ UpdateTeacherAssignmentsNoText

SpecTeachers == InitTeachers /\ [][NextTeachers]_vars

HasPair(d, c, k) == c \in DOMAIN d /\ k \in DOMAIN d[c]

\* C1: a merge keeps every pair of the store whose (cohort, unit_key) does
\* not occur in the merged delta, with the same teacher.
C1_MergeKeepsOtherPairs ==
    \A c \in DOMAIN lastMerge.before :
        \A k \in DOMAIN lastMerge.before[c] :
            ~HasPair(lastMerge.delta, c, k) =>
                /\ HasPair(teacher_assignments, c, k)
                /\ teacher_assignments[c][k] = lastMerge.before[c][k]

----------------------------------------------------------------------------
(* Unit normalisation and event derivation (app.py) *)

T_orientation == <<"o","r","i","e","n","t","a","t","i","o","n">>
T_Orientation == <<"O","r","i","e","n","t","a","t","i","o","n">>
T_NoActivity == <<"N","o"," ","A","c","t","i","v","i","t","y">>
T_FSDI101 == <<"F","S","D","I"," ","1","0","1">>
T_FSDI == <<"F","S","D","I">>
T_Space == <<" ">>
T_FSDIAlex == <<"F","S","D","I","\t","A","l","e","x">>
T_0314_2025 == <<"0","3","/","1","4","/","2","0","2","5">>
T_0401_25 == <<"0","4","/","0","1","/","2","5">>

\* re.search(r'\b(\d{3})\b', s): where the matches start
ThreeDigitTokens(s) ==
    {i \in 1..(Len(s) - 2) :
        /\ \A j \in i..(i + 2) : IsDigitCh(s[j])
        /\ (i = 1 \/ ~IsWordCh(s[i - 1]))
        /\ (i + 2 = Len(s) \/ ~IsWordCh(s[i + 3]))}

get_actual_unit_from_cell(cell_value) ==
    IF cell_value = NaN THEN None
    ELSE LET v == StrStrip(Str(cell_value))
         IN  IF v = <<>> \/ StrLower(v) \in {T_orientation, T_nan} THEN None
             ELSE IF ThreeDigitTokens(v) # {}
             THEN SubSeq(v, MinOf(ThreeDigitTokens(v)), MinOf(ThreeDigitTokens(v)) + 2)
             ELSE v

get_unit_type_for_color(unit_name_full) ==
    IF unit_name_full = NaN \/ unit_name_full = <<>> THEN "DEFAULT"
    ELSE LET uname == StrUpper(Str(unit_name_full))
         IN  IF StrContains(uname, <<"F","S","D","I">>) THEN "FSDI"
             ELSE IF StrContains(uname, <<"M","D","I","1">>)
                     \/ StrContains(uname, <<"M","D","I","-","1">>) THEN "MDI1"
             ELSE IF StrContains(uname, <<"M","D","I","2">>)
                     \/ StrContains(uname, <<"M","D","I","-","2">>) THEN "MDI2"
             ELSE IF StrContains(uname, <<"O","R","I","E","N","T","A","T","I","O","N">>)
             THEN "ORIENTATION"
             ELSE "DEFAULT"

DigitCh(n) ==
    CASE n = 0 -> "0" [] n = 1 -> "1" [] n = 2 -> "2" [] n = 3 -> "3"
      [] n = 4 -> "4" [] n = 5 -> "5" [] n = 6 -> "6" [] n = 7 -> "7"
      [] n = 8 -> "8" [] n = 9 -> "9"

\* date.strftime("%Y-%m-%d")
FormatYMD(dt) ==
    <<DigitCh((dt.y \div 1000) % 10), DigitCh((dt.y \div 100) % 10),
      DigitCh((dt.y \div 10) % 10), DigitCh(dt.y % 10), "-",
      DigitCh(dt.m \div 10), DigitCh(dt.m % 10), "-",
      DigitCh(dt.d \div 10), DigitCh(dt.d % 10)>>

\* actual_unit_activity_display of a row
UnitDisplay(row) ==
    LET unit_activity_full == StrStrip(Str(row.UnitActivity))
    IN  IF unit_activity_full # <<>> THEN unit_activity_full ELSE T_NoActivity

UnitFilterPasses_Substring(display, selected_units_full) ==
    \/ selected_units_full = {}
    \/ StrLower(display) = T_orientation /\ T_Orientation \in selected_units_full
    \/ \E u \in selected_units_full : StrContains(display, u)

UnitFilterPasses_OrientationOpen(display, selected_units_full) ==
    \/ selected_units_full = {}
    \/ T_Orientation \in selected_units_full
    \/ display \in selected_units_full

\* display_event: the unit filter of the derivation loop
UnitFilterPasses(display, selected_units_full) ==
    \/ selected_units_full = {}
    \/ StrLower(display) = T_orientation /\ T_Orientation \in selected_units_full
    \/ display \in selected_units_full

ResolveTeacher_ByDisplay(assignments, cohort_name, display) ==
    IF cohort_name \in DOMAIN assignments /\ display \in DOMAIN assignments[cohort_name]
    THEN assignments[cohort_name][display]
    ELSE <<>>

\* teacher_name of the derivation loop
ResolveTeacher(assignments, cohort_name, display) ==
    LET unit_key_teacher == get_actual_unit_from_cell(display)
    IN  IF cohort_name \in DOMAIN assignments
           /\ unit_key_teacher \in DOMAIN assignments[cohort_name]
        THEN assignments[cohort_name][unit_key_teacher]
        ELSE <<>>

TeacherFilterPasses_NoUnassigned(teacher_name, selected_teachers) ==
    selected_teachers = {} \/ teacher_name \in selected_teachers

\* the teacher filter of the derivation loop
TeacherFilterPasses(teacher_name, selected_teachers) ==
    ~(/\ selected_teachers # {}
      /\ teacher_name \notin selected_teachers
      /\ ~(teacher_name = <<>> /\ T_Unassigned \in selected_teachers))

EventTitle(cohort_name, display, teacher_name) ==
    cohort_name \o <<":", " ">> \o display
        \o (IF teacher_name # <<>> THEN <<" ", "(">> \o teacher_name \o <<")">>
            ELSE <<>>)

\* what the lookup of a key the dict has not raises
KeyError == "KeyError"

\* event_colors.get(type, event_colors["DEFAULT"]): the default is an
\* argument, looked up before get is called
EventColor(colors, display) ==
    IF "DEFAULT" \notin DOMAIN colors THEN KeyError
    ELSE IF get_unit_type_for_color(display) \in DOMAIN colors
    THEN colors[get_unit_type_for_color(display)] ELSE colors["DEFAULT"]

\* the events one row of df_month gives: none or one
RowEvents(row, assignments, colors, selected_units_full, selected_teachers) ==
    LET display == UnitDisplay(row)
        teacher_name == ResolveTeacher(assignments, row.CohortName, display)
    IN  IF ~UnitFilterPasses(display, selected_units_full) THEN <<>>
        ELSE IF ~TeacherFilterPasses(teacher_name, selected_teachers) THEN <<>>
        ELSE << [title |-> EventTitle(row.CohortName, display, teacher_name),
                 start |-> FormatYMD(row.ParsedDate),
                 color |-> EventColor(colors, display),
                 extendedProps |-> [teacher |-> teacher_name,
                                    cohort |-> row.CohortName,
                                    unit |-> display]] >>

InMonth(row, selected_year, selected_month) ==
    row.ParsedDate.y = selected_year /\ row.ParsedDate.m = selected_month

RECURSIVE EventsFrom(_, _, _, _, _, _)
EventsFrom(df_month, i, assignments, colors, selected_units_full, selected_teachers) ==
    IF i > Len(df_month) THEN <<>>
    ELSE RowEvents(df_month[i], assignments, colors, selected_units_full,
                   selected_teachers)
         \o EventsFrom(df_month, i + 1, assignments, colors, selected_units_full,
                       selected_teachers)

generate_calendar_events_from_master(df_master, assignments, colors, s) ==
    LET InSelection(row) ==
            InMonth(row, s.year, s.month) /\ row.CohortName \in s.cohorts
    IN  EventsFrom(SelectSeq(df_master, InSelection), 1, assignments, colors,
                   s.units, s.teachers)

TabCalendarView_NoCohortGuard(df_master, assignments, colors, s) ==
    IF df_master # <<>> /\ s.year # 0 /\ s.month # 0
    THEN LET calendar_events ==
                 generate_calendar_events_from_master(df_master, assignments, colors, s)
         IN  [message |-> IF calendar_events = <<>> THEN "no_events" ELSE "calendar",
              events |-> calendar_events]
    ELSE [message |-> "master_empty", events |-> <<>>]

\* what the calendar tab shows for the frame and the sidebar selections
TabCalendarView(df_master, assignments, colors, s) ==
    IF df_master # <<>> /\ s.year # 0 /\ s.month # 0
    THEN IF s.cohorts = {}
         THEN [message |-> "select_cohort", events |-> <<>>]
         ELSE LET calendar_events ==
                      generate_calendar_events_from_master(df_master, assignments,
                                                           colors, s)
              IN  [message |-> IF calendar_events = <<>> THEN "no_events"
                               ELSE "calendar",
                   events |-> calendar_events]
    ELSE [message |-> "master_empty", events |-> <<>>]

\* a script run: the calendar tab is rendered
TabCalendar ==
    /\ view' = TabCalendarView(master_schedule_df, teacher_assignments,
                               event_colors, sel)
    /\ UNCHANGED sel
    /\ UNCHANGED <<configVars, storeVars, call>>

----------------------------------------------------------------------------
(* Sidebar selections and the derivation specification *)

MonthIndex(dt) == dt.y * 12 + (dt.m - 1)

\* available_year_months: every month from the first date to the last
AvailableMonths(df) ==
    LET idx == {MonthIndex(df[i].ParsedDate) : i \in 1..Len(df)}
    IN  {<<n \div 12, (n % 12) + 1>> : n \in MinOf(idx)..MaxOf(idx)}

\* all_cohort_names_master
CohortOptions(df) == {Str(df[i].CohortName) : i \in 1..Len(df)}

\* units_for_global_ui
UnitOptions(df) ==
    LET cells == {IF Str(df[i].UnitActivity) = T_nan THEN <<>>
                  ELSE Str(df[i].UnitActivity) : i \in 1..Len(df)}
    IN  {T_Orientation} \cup
        {u \in cells : StrStrip(u) # <<>> /\ StrLower(u) # T_orientation}

\* teacher_filter_options_global
TeacherOptions(known) == {T_Unassigned} \cup known

\* what each sidebar widget can be set to; with an empty frame the sidebar
\* shows no widget and the selections keep their initial values
CohortChoices(df) == IF df = <<>> THEN {{}} ELSE SUBSET CohortOptions(df)
UnitChoices(df) == IF df = <<>> THEN {{}} ELSE SUBSET UnitOptions(df)
TeacherChoices(df, known) ==
    IF df = <<>> THEN {{}} ELSE SUBSET TeacherOptions(known)
MonthChoices(df) == IF df = <<>> THEN {<<0, 0>>} ELSE AvailableMonths(df)

ScheduleRow(date_str, cohort, unit) ==
    [OriginalDateString |-> date_str, CohortName |-> cohort, UnitActivity |-> unit]

\* rows of the persisted schedules the derivation is checked on
DeriveRowKinds ==
    {ScheduleRow(T_0314_2025, T_Cohort52, T_FSDI101),
     ScheduleRow(T_0314_2025, T_Cohort52, T_orientation),
     ScheduleRow(T_0314_2025, T_Cohort52, <<>>),
     ScheduleRow(T_0314_2025, T_Cohort52, T_nan),
     ScheduleRow(T_0401_25, T_Cohort52, T_Space),
     ScheduleRow(T_0314_2025, T_Ch54, T_FSDI)}

MaxDeriveRows == 2

DeriveFiles ==
    {AbsentFile} \cup
    UNION {{WrittenFile(rows) : rows \in [1..n -> DeriveRowKinds]} :
              n \in 0..MaxDeriveRows}

\* the frames load_master_schedule gives for these files
LoadedDeriveFiles == {[file |-> f, df |-> LoadFromFile(f)] : f \in DeriveFiles}

\* teacher blocks the stores of the derivation are parsed from
DeriveBlocks == {<<>>, <<T_Cohort52, T_101Sam, T_Ch54, T_FSDIAlex>>}

DeriveStores == {parse_teacher_assignment_data(b) : b \in DeriveBlocks}

\* a session whose schedule file, teacher store and selections are given
InitDerive ==
    \E lf \in LoadedDeriveFiles, p \in DeriveStores :
      \E c \in CohortChoices(lf.df), u \in UnitChoices(lf.df),
         t \in TeacherChoices(lf.df, p.teachers_found), ym \in MonthChoices(lf.df) :
        /\ master_file = lf.file
        /\ master_schedule_df = lf.df
        /\ cache = [valid |-> TRUE, df |-> lf.df]
        /\ writer = IdleWriter
        /\ lastAppend = NoAppend
        /\ event_colors = get_default_colors
        /\ teacher_assignments = p.assignments
        /\ all_known_teachers = p.teachers_found
        /\ config_file = SavedConfigFile(get_default_colors, p.assignments,
                                         p.teachers_found)
        /\ lastMerge = [before |-> EmptyDict, delta |-> p.assignments,
                        found |-> p.teachers_found]
        /\ sel = [cohorts |-> c, units |-> u, teachers |-> t,
                  year |-> ym[1], month |-> ym[2]]
        /\ view = NoView
        /\ call = NoCall

NextDerive ==
    \/ TabCalendar

SpecDerive == InitDerive /\ [][NextDerive]_vars

----------------------------------------------------------------------------
(* Properties of the derivation *)

\* the calendar tab has been rendered
Rendered == view.message # "none"

\* the derivation has run
Derived == view.message \in {"no_events", "calendar"}

\* the rows of the frame in the selected month and cohorts
SelectedRows ==
    LET InSelection(row) ==
            InMonth(row, sel.year, sel.month) /\ row.CohortName \in sel.cohorts
    IN  SelectSeq(master_schedule_df, InSelection)

EventKey(e) == <<e.extendedProps.cohort, e.extendedProps.unit, e.start>>
EventKeys(events) == [i \in 1..Len(events) |-> EventKey(events[i])]
RowKey(row) == <<row.CohortName, UnitDisplay(row), FormatYMD(row.ParsedDate)>>
RowTeacher(row) == ResolveTeacher(teacher_assignments, row.CohortName, UnitDisplay(row))

UnitRule(display, units_filter) ==
    \/ units_filter = {}
    \/ StrLower(display) = T_orientation /\ T_Orientation \in units_filter
    \/ display \in units_filter

\* the teacher filter as stated: empty filter, or the teacher selected, or no
\* teacher with "Unassigned" selected
TeacherRule(teacher, teachers_filter) ==
    \/ teachers_filter = {}
    \/ teacher \in teachers_filter
    \/ teacher = <<>> /\ T_Unassigned \in teachers_filter

\* C6: an event is emitted for exactly the rows of the selected month and
\* cohorts whose display text satisfies the unit rule (and that the teacher
\* filter lets through); with no unit selected no row is excluded by unit
C6_UnitFilterRule ==
    Derived =>
        LET Passing(row) ==
                /\ UnitRule(UnitDisplay(row), sel.units)
                /\ TeacherFilterPasses(RowTeacher(row), sel.teachers)
            expected == SelectSeq(SelectedRows, Passing)
        IN  /\ \A i \in 1..Len(view.events) :
                  UnitRule(view.events[i].extendedProps.unit, sel.units)
            /\ EventKeys(view.events) = [i \in 1..Len(expected) |-> RowKey(expected[i])]

C6_Witness ==
    /\ view.message = "calendar"
    /\ sel.units = {T_FSDI} /\ sel.teachers = {}
    /\ \E i \in 1..Len(SelectedRows) : UnitDisplay(SelectedRows[i]) = T_FSDI101
    /\ \A i \in 1..Len(view.events) : view.events[i].extendedProps.unit = T_FSDI

\* C7: with the unit filter ["Orientation"] every event's unit is of the
\* ORIENTATION category
C7_OrientationOnly ==
    (Derived /\ sel.units = {T_Orientation}) =>
        \A i \in 1..Len(view.events) :
            get_unit_type_for_color(view.events[i].extendedProps.unit) = "ORIENTATION"

C7_Witness ==
    /\ sel.units = {T_Orientation}
    /\ Len(view.events) >= 1
    /\ Len(view.events) < Len(SelectedRows)

\* C8: an event is emitted for exactly the rows (that the other filters let
\* through) whose resolved teacher satisfies the teacher rule; with no teacher
\* selected no row is excluded by teacher
C8_TeacherFilterRule ==
    Derived =>
        LET Passing(row) ==
                /\ UnitFilterPasses(UnitDisplay(row), sel.units)
                /\ TeacherRule(RowTeacher(row), sel.teachers)
            expected == SelectSeq(SelectedRows, Passing)
        IN  /\ \A i \in 1..Len(view.events) :
                  TeacherRule(view.events[i].extendedProps.teacher, sel.teachers)
            /\ [i \in 1..Len(view.events) |-> view.events[i].title]
                 = [i \in 1..Len(expected) |->
                      EventTitle(expected[i].CohortName, UnitDisplay(expected[i]),
                                 RowTeacher(expected[i]))]

C8_Witness ==
    /\ sel.teachers = {T_Unassigned}
    /\ Len(view.events) >= 1
    /\ Len(view.events) < Len(SelectedRows)
    /\ \A i \in 1..Len(view.events) : view.events[i].extendedProps.teacher = <<>>

\* C9: an event's teacher is the store's value for (cohort, teacher key) when
\* the store has that pair and the empty string otherwise, and with no unit
\* and no teacher selected every selected row gives its event
C9_TeacherResolution ==
    Derived =>
        /\ \A i \in 1..Len(view.events) :
              LET e == view.events[i].extendedProps
                  teacher_key == get_actual_unit_from_cell(e.unit)
              IN  e.teacher = IF HasPair(teacher_assignments, e.cohort, teacher_key)
                              THEN teacher_assignments[e.cohort][teacher_key]
                              ELSE <<>>
        /\ (sel.units = {} /\ sel.teachers = {}) =>
              Len(view.events) = Len(SelectedRows)

C9_Witness ==
    /\ view.message = "calendar"
    /\ \E i, j \in 1..Len(view.events) :
          /\ view.events[i].extendedProps.teacher = T_Sam
          /\ view.events[j].extendedProps.teacher = <<>>
          /\ view.events[j].extendedProps.cohort \in DOMAIN teacher_assignments

\* the file with the unit cell of row i changed from empty to "nan" or back
SwapNanCell(file, i) ==
    [file EXCEPT !.rows[i].UnitActivity =
        IF @ = <<>> THEN T_nan ELSE IF @ = T_nan THEN <<>> ELSE @]

\* C10: changing one unit cell of the schedule file from absent to "nan", or
\* back, leaves what the calendar tab shows as it is
C10_NanLikeAbsent ==
    Rendered =>
        \A i \in {j \in 1..Len(master_file.rows) :
                     master_file.rows[j].UnitActivity \in {<<>>, T_nan}} :
            view = TabCalendarView(LoadFromFile(SwapNanCell(master_file, i)),
                                   teacher_assignments, event_colors, sel)

C10_Witness ==
    /\ view.message = "calendar"
    /\ \E i \in 1..Len(master_file.rows) :
          master_file.rows[i].UnitActivity \in {<<>>, T_nan}
    /\ \E i \in 1..Len(view.events) : view.events[i].extendedProps.unit = T_nan

----------------------------------------------------------------------------
(* Date parsers of the two ingestion paths *)

\* date_str.split(',')[-1].strip()
LastCommaPart(date_str) ==
    LET parts == SplitOn(date_str, ",") IN StrStrip(parts[Len(parts)])

\* parse_date_from_string of app2.py (wide table): %m/%d/%y, then %m/%d/%Y
parse_date_from_string(date_str) ==
    IF date_str = NaN \/ date_str = None THEN NoDate
    ELSE LET date_part == LastCommaPart(date_str)
         IN  IF Strptime(date_part, FALSE) # NoDate THEN Strptime(date_part, FALSE)
             ELSE Strptime(date_part, TRUE)

MaxYearSpan == 1

\* the calendar dates the raw tokens are written from
EncodedDates ==
    {dt \in [y : {1999} \cup (2024..(2024 + MaxYearSpan)), m : {1, 2, 3, 12},
             d : {1, 14, 29, 31}] : dt.d <= DaysIn(dt.y, dt.m)}

T_SlotSaturdayAM ==
    <<"S","a","t","u","r","d","a","y"," ","(","9"," ","a","m"," ","-"," ",
      "1","2"," ","p","m",")",","," ">>
T_SlotTwoCommas == <<"S","a","t",","," ","A","M",","," ">>

\* nothing, a slot label and a comma, a label that itself holds a comma
SlotLabels == {<<>>, T_SlotSaturdayAM, T_SlotTwoCommas}

TwoDigits(n) == <<DigitCh((n \div 10) % 10), DigitCh(n % 10)>>

\* the token MM/DD/YYYY (long) or MM/DD/YY of a date, after a slot label
EncodeDate(dt, long, label) ==
    label \o TwoDigits(dt.m) \o <<"/">> \o TwoDigits(dt.d) \o <<"/">>
          \o (IF long THEN TwoDigits(dt.y \div 100) ELSE <<>>) \o TwoDigits(dt.y)

RawDateTokens ==
    {EncodeDate(dt, long, label) :
        dt \in EncodedDates, long \in BOOLEAN, label \in SlotLabels}

InitDates ==
    /\ InitConfigDefault /\ InitStoreIdle
    /\ sel = NoSel /\ view = NoView
    /\ call \in {[fn |-> "none", arg |-> raw, result |-> NoDate] : raw \in RawDateTokens}

\* the long-form parser applied to the token
CallParseMasterDate ==
    /\ call.fn = "none"
    /\ call' = [fn |-> "parse_master_schedule_date_string", arg |-> call.arg,
                result |-> parse_master_schedule_date_string(call.arg)]
    /\ UNCHANGED <<configVars, storeVars, viewVars>>

\* the wide-table parser applied to the token
CallParseWideDate ==
    /\ call.fn = "none"
    /\ call' = [fn |-> "parse_date_from_string", arg |-> call.arg,
                result |-> parse_date_from_string(call.arg)]
    /\ UNCHANGED <<configVars, storeVars, viewVars>>

NextDates ==
    \/ CallParseMasterDate
    \/ CallParseWideDate

SpecDates == InitDates /\ [][NextDates]_vars

\* the date a token was written from is what the parser returned for it
ParsedAsWritten ==
    \A dt \in EncodedDates, long \in BOOLEAN, label \in SlotLabels :
        call.arg = EncodeDate(dt, long, label) => call.result = dt

\* C11: each of the two parsers returns, for a token written from a date in
\* either encoding, with or without a slot label before a comma, that date
C11_SameDateAnyEncoding ==
    call.fn \in {"parse_master_schedule_date_string", "parse_date_from_string"}
        => ParsedAsWritten

----------------------------------------------------------------------------
(* Loading persisted schedules *)

T_TBD == <<"T","B","D">>
T_0230_2025 == <<"0","2","/","3","0","/","2","0","2","5">>
T_0314_1500 == <<"0","3","/","1","4","/","1","5","0","0">>
T_Padded_0314_2025 == <<" ">> \o T_0314_2025 \o <<" ">>

\* date cells of persisted rows: both encodings, white space around a date,
\* no date, a text that is no date, a day the month has not, a far year
LoadDateCells ==
    {T_0314_2025, T_0401_25, T_Padded_0314_2025, <<>>, T_TBD, T_0230_2025,
     T_0314_1500}

MaxLoadRows == 2

LoadFiles ==
    {AbsentFile, TruncatedFile, BadColumnsFile, UndecodableFile} \cup
    UNION {{WrittenFile([i \in 1..n |-> ScheduleRow(cells[i], T_Cohort52, T_FSDI101)]) :
               cells \in [1..n -> LoadDateCells]} : n \in 0..MaxLoadRows}

\* a session before its first script run, with a persisted file
InitLoad ==
    /\ InitConfigDefault /\ InitViewNone
    /\ master_file \in LoadFiles
    /\ cache = NoCache
    /\ master_schedule_df = <<>>
    /\ writer = IdleWriter
    /\ lastAppend = NoAppend

NextLoad ==
    \/ Rerun
    \/ CacheExpire

SpecLoad == InitLoad /\ [][NextLoad]_vars

\* the rows of the file as read whose date string the parser resolves
RowsWithParsedDate(file) ==
    LET Parses(r) == parse_master_schedule_date_string(r.OriginalDateString) # NoDate
    IN  IF file.exists /\ file.header = "ok"
        THEN SelectSeq(ReadCsvRows(file), Parses) ELSE <<>>

\* C12: a load returns the rows of the file whose date string parses, each
\* with that date, and no other row
C12_LoadKeepsParsedDates ==
    cache.valid =>
        LET expected == RowsWithParsedDate(master_file)
        IN  /\ \A i \in 1..Len(cache.df) : cache.df[i].ParsedDate # NoDate
            /\ Len(cache.df) = Len(expected)
            /\ \A i \in 1..Len(cache.df) :
                  /\ cache.df[i].OriginalDateString = expected[i].OriginalDateString
                  /\ cache.df[i].ParsedDate =
                       parse_master_schedule_date_string(expected[i].OriginalDateString)

\* a load has been made (a frame of no row is what the session starts with)
LoadedBefore == cache.valid \/ master_schedule_df # <<>>

----------------------------------------------------------------------------
(* Configuration file: load at session start, colour picks, saves *)

\* d.get(k, default)
DictGet(d, k, default) == IF k \in DOMAIN d THEN d[k] ELSE default

\* a JSON value that is a number where a list is expected
JsonNumber == << <<"json:number">> >>

DefaultConfig ==
    [event_colors |-> get_default_colors, teacher_assignments |-> EmptyDict,
     all_known_teachers |-> {}, error |-> FALSE]

\* load_config: the three session values it leaves and whether it reported
\* an error; content "unreadable" (open raises), "not_json" (json.load
\* raises), "array" (config_data.get raises), "object"
load_config_KeepsPartial(file) ==
    IF ~file.exists THEN DefaultConfig
    ELSE IF file.content # "object" THEN [DefaultConfig EXCEPT !.error = TRUE]
    ELSE [event_colors |-> DictGet(file.data, "event_colors", get_default_colors),
          teacher_assignments |-> DictGet(file.data, "teacher_assignments", EmptyDict),
          all_known_teachers |->
              IF DictGet(file.data, "all_known_teachers", <<>>) = JsonNumber THEN {}
              ELSE SetOfList(DictGet(file.data, "all_known_teachers", <<>>)),
          error |-> DictGet(file.data, "all_known_teachers", <<>>) = JsonNumber]

load_config(file) ==
    IF ~file.exists THEN DefaultConfig
    ELSE IF file.content # "object" THEN [DefaultConfig EXCEPT !.error = TRUE]
    ELSE LET known == DictGet(file.data, "all_known_teachers", <<>>)
         IN  IF known = JsonNumber THEN [DefaultConfig EXCEPT !.error = TRUE]
             ELSE [event_colors |->
                       DictGet(file.data, "event_colors", get_default_colors),
                   teacher_assignments |->
                       DictGet(file.data, "teacher_assignments", EmptyDict),
                   all_known_teachers |-> SetOfList(known),
                   error |-> FALSE]

T_Black == "#000000"

\* a store and a teacher set a config file can hold
ConfigStore == parse_teacher_assignment_data(<<T_Cohort52, T_101Sam, T_102Jordan>>)

\* config.json as the session can find it
ConfigFiles ==
    {NoConfigFile,
     SavedConfigFile(get_default_colors, EmptyDict, {}),
     SavedConfigFile([get_default_colors EXCEPT !["MDI1"] = T_Black],
                     ConfigStore.assignments, ConfigStore.teachers_found),
     [exists |-> TRUE, content |-> "object",
      data |-> [teacher_assignments |-> ConfigStore.assignments]],
     [exists |-> TRUE, content |-> "object",
      data |-> [event_colors |-> [get_default_colors EXCEPT !["MDI1"] = T_Black],
                teacher_assignments |-> ConfigStore.assignments,
                all_known_teachers |-> JsonNumber]],
     [exists |-> TRUE, content |-> "object",
      data |-> [event_colors |-> [k \in {"FSDI"} |-> T_Black],
                teacher_assignments |-> EmptyDict,
                all_known_teachers |-> <<>>]],
     [exists |-> TRUE, content |-> "not_json", data |-> EmptyDict],
     [exists |-> TRUE, content |-> "array", data |-> EmptyDict],
     [exists |-> TRUE, content |-> "unreadable", data |-> EmptyDict]}

\* a session after "if 'event_colors' not in st.session_state: load_config()"
InitConfig ==
    /\ \E f \in ConfigFiles :
          /\ config_file = f
          /\ event_colors = load_config(f).event_colors
          /\ teacher_assignments = load_config(f).teacher_assignments
          /\ all_known_teachers = load_config(f).all_known_teachers
          /\ call = [fn |-> "load_config", arg |-> f, result |-> load_config(f).error]
    /\ lastMerge = NoMerge
    /\ InitStoreIdle
    /\ sel = NoSel /\ view = NoView

PickedColors == {T_Black}

\* a colour picker of the configuration tab set to another colour
ColorPick(key_cfg, new_color_cfg) ==
    /\ key_cfg \in DOMAIN event_colors
    /\ new_color_cfg # event_colors[key_cfg]
    /\ event_colors' = DictSet(event_colors, key_cfg, new_color_cfg)
    /\ config_file' = SavedConfigFile(event_colors', teacher_assignments,
                                      all_known_teachers)
    /\ UNCHANGED <<teacher_assignments, all_known_teachers, lastMerge>>
    /\ UNCHANGED <<storeVars, viewVars, call>>

ConfigBlocks ==
    {<<T_Cohort52, T_101Sam>>, <<T_Ch54, T_101Alex>>, <<T_Cohort52, T_102Jordan>>}

ParsedConfigBlocks ==
    {[raw_data |-> b, parsed |-> parse_teacher_assignment_data(b)] : b \in ConfigBlocks}

NextConfig ==
    \/ \E k \in {"FSDI", "MDI1", "MDI2", "ORIENTATION", "DEFAULT"},
          c \in PickedColors : ColorPick(k, c)
    \/ \E pb \in ParsedConfigBlocks : UpdateTeacherAssignments(pb.raw_data, pb.parsed)
    \/ UpdateTeacherAssignmentsNoText
    \/ TabCalendar
    \/ Rerun

SpecConfig == InitConfig /\ [][NextConfig]_vars

----------------------------------------------------------------------------
(* The wide-table application (app2.py): its teacher-block parser and its
   session, which holds the configuration in the session state only *)

\* the header test of app2.py: no "CH." alternative
IsCohortHeader_app2(line) ==
    /\ \/ StartsWith(StrUpper(line), <<"C","O","H","O","R","T"," ">>)
       \/ StrContains(StrUpper(line), <<"C","H"," ">>)
       \/ StrContains(line, <<"C","h"," ">>)
    /\ ~StrContains(line, <<"\t">>)
    /\ ~StartsWithUnitNumber(line)

\* the assignment test of app2.py: a tab, or exactly two tokens
IsAssignmentLine_app2(line) ==
    StrContains(line, <<"\t">>) \/ SplitCount(line) = 2

ParseTeacherLine_app2(acc, rawline) ==
    LET line == StrStrip(rawline)
    IN  IF line = <<>> THEN acc
        ELSE IF IsCohortHeader_app2(line)
        THEN [acc EXCEPT !.current_cohort = line,
                         !.assignments = DictSet(@, line, EmptyDict)]
        ELSE IF acc.current_cohort # None /\ IsAssignmentLine_app2(line)
        THEN LET parts == SplitFirstSpace(line)
             IN  IF Len(parts) = 2
                    /\ StrStrip(parts[1]) # <<>> /\ StrStrip(parts[2]) # <<>>
                 THEN LET unit == StrStrip(parts[1])
                          teacher == StrStrip(parts[2])
                          c == acc.current_cohort
                      IN  [acc EXCEPT
                             !.assignments =
                                 DictSet(@, c, DictSet(@[c], UnitKeyOf(unit), teacher)),
                             !.teachers_found = @ \cup {teacher}]
                 ELSE acc
        ELSE acc

RECURSIVE ParseTeacherLines_app2(_, _, _)
ParseTeacherLines_app2(lines, i, acc) ==
    IF i > Len(lines) THEN acc
    ELSE ParseTeacherLines_app2(lines, i + 1, ParseTeacherLine_app2(acc, lines[i]))

parse_teacher_assignment_data_app2(raw_data) ==
    ParseTeacherLines_app2(raw_data, 1,
        [assignments |-> EmptyDict, current_cohort |-> None, teachers_found |-> {}])

\* a colour picker of app2.py returns a colour other than the stored one
ColorPick_app2(key, new_color) ==
    /\ key \in DOMAIN event_colors
    /\ new_color # event_colors[key]
    /\ event_colors' = DictSet(event_colors, key, new_color)
    /\ UNCHANGED <<teacher_assignments, all_known_teachers, config_file, lastMerge>>
    /\ UNCHANGED <<storeVars, viewVars, call>>

\* "Update Teacher Assignments" of app2.py pressed with text in the area
UpdateTeacherAssignments_app2(raw_data) ==
    LET parsed == parse_teacher_assignment_data_app2(raw_data)
    IN  /\ raw_data # <<>>
        /\ teacher_assignments' =
               MergeAssignments(teacher_assignments, parsed.assignments)
        /\ all_known_teachers' =
               KnownAfterUpdate(all_known_teachers, parsed.teachers_found)
        /\ lastMerge' = [before |-> teacher_assignments,
                         delta |-> parsed.assignments,
                         found |-> parsed.teachers_found]
        /\ UNCHANGED <<event_colors, config_file>>
        /\ UNCHANGED <<storeVars, viewVars, call>>

\* the session state of app2.py at the first run of the script
InitConfig_app2 ==
    /\ InitConfigDefault /\ InitStoreIdle
    /\ sel = NoSel /\ view = NoView
    /\ call = NoCall

NextConfig_app2 ==
    \/ \E k \in {"FSDI", "MDI1", "MDI2", "ORIENTATION", "DEFAULT"},
          c \in PickedColors : ColorPick_app2(k, c)
    \/ \E b \in ConfigBlocks : UpdateTeacherAssignments_app2(b)
    \/ UpdateTeacherAssignmentsNoText

SpecConfig_app2 == InitConfig_app2 /\ [][NextConfig_app2]_vars

----------------------------------------------------------------------------
(* Table view *)

\* ' / '.join(parts) for a list of strings
RECURSIVE JoinSlash(_)
JoinSlash(parts) ==
    IF parts = <<>> THEN <<>>
    ELSE IF Len(parts) = 1 THEN parts[1]
    ELSE parts[1] \o <<" ", "/", " ">> \o JoinSlash(Tail(parts))

PivotCell_NoDedup(activities) == JoinSlash(activities)

\* aggfunc of the pivot: ' / '.join(sorted(list(set(x))))
PivotCell(activities) == JoinSlash(SortedList(SetOfList(activities)))

\* sorted dates of a set of dates
RECURSIVE SortedDates(_)
SortedDates(S) ==
    IF S = {} THEN <<>>
    ELSE LET first == CHOOSE d \in S : \A e \in S : DateLeq(d, e)
         IN  <<first>> \o SortedDates(S \ {first})

\* strftime('%a'): the day of the week, Sunday 0
Weekday(dt) ==
    LET t == <<0, 3, 2, 5, 0, 3, 5, 1, 4, 6, 2, 4>>
        y == IF dt.m < 3 THEN dt.y - 1 ELSE dt.y
    IN  (y + (y \div 4) - (y \div 100) + (y \div 400) + t[dt.m] + dt.d) % 7

WeekdayNames ==
    << <<"S","u","n">>, <<"M","o","n">>, <<"T","u","e">>, <<"W","e","d">>,
       <<"T","h","u">>, <<"F","r","i">>, <<"S","a","t">> >>

\* x.strftime('%a, %m/%d/%Y')
FormatTableDate(dt) ==
    WeekdayNames[Weekday(dt) + 1] \o <<",", " ">>
        \o <<DigitCh(dt.m \div 10), DigitCh(dt.m % 10), "/",
             DigitCh(dt.d \div 10), DigitCh(dt.d % 10), "/",
             DigitCh((dt.y \div 1000) % 10), DigitCh((dt.y \div 100) % 10),
             DigitCh((dt.y \div 10) % 10), DigitCh(dt.y % 10)>>

TableDataRow_NoTeacherFilter(row, assignments, selected_units_full, selected_teachers) ==
    LET display == UnitDisplay(row)
        teacher_name == ResolveTeacher(assignments, row.CohortName, display)
        cell_display ==
            display \o (IF teacher_name # <<>>
                        THEN <<" ", "(">> \o teacher_name \o <<")">> ELSE <<>>)
    IN  IF ~UnitFilterPasses(display, selected_units_full) THEN <<>>
        ELSE << [Date |-> row.ParsedDate, CohortName |-> row.CohortName,
                 Activity |-> cell_display] >>

\* the entry of table_data_rows one row of df_filtered gives: none or one
TableDataRow(row, assignments, selected_units_full, selected_teachers) ==
    LET display == UnitDisplay(row)
        teacher_name == ResolveTeacher(assignments, row.CohortName, display)
        cell_display ==
            display \o (IF teacher_name # <<>>
                        THEN <<" ", "(">> \o teacher_name \o <<")">> ELSE <<>>)
    IN  IF ~UnitFilterPasses(display, selected_units_full) THEN <<>>
        ELSE IF ~TeacherFilterPasses(teacher_name, selected_teachers) THEN <<>>
        ELSE << [Date |-> row.ParsedDate, CohortName |-> row.CohortName,
                 Activity |-> cell_display] >>

RECURSIVE TableDataRows(_, _, _, _, _)
TableDataRows(df_filtered, i, assignments, selected_units_full, selected_teachers) ==
    IF i > Len(df_filtered) THEN <<>>
    ELSE TableDataRow(df_filtered[i], assignments, selected_units_full,
                      selected_teachers)
         \o TableDataRows(df_filtered, i + 1, assignments, selected_units_full,
                          selected_teachers)

EmptyFrame == [columns |-> <<>>, rows |-> <<>>]

\* pivot_table(index='Date', columns='CohortName', values='Activity'), sorted
\* by Date, the dates formatted, the missing cells filled with ''
PivotTable(table_data_rows) ==
    LET dates == SortedDates({r.Date : r \in SetOfList(table_data_rows)})
        cohorts == SortedList({r.CohortName : r \in SetOfList(table_data_rows)})
        Group(d, c) ==
            LET InGroup(r) == r.Date = d /\ r.CohortName = c
                group == SelectSeq(table_data_rows, InGroup)
            IN  [i \in 1..Len(group) |-> group[i].Activity]
    IN  [columns |-> cohorts,
         rows |-> [i \in 1..Len(dates) |->
                     [Date |-> FormatTableDate(dates[i]),
                      cells |-> [c \in SetOfList(cohorts) |->
                                    PivotCell(Group(dates[i], c))]]]]

prepare_data_for_table_view(df_master, assignments, s, start_date_table, end_date_table) ==
    LET InRange(row) ==
            /\ DateLeq(start_date_table, row.ParsedDate)
            /\ DateLeq(row.ParsedDate, end_date_table)
            /\ row.CohortName \in s.cohorts
        table_data_rows ==
            TableDataRows(SelectSeq(df_master, InRange), 1, assignments,
                          s.units, s.teachers)
    IN  IF table_data_rows = <<>> THEN EmptyFrame
        ELSE PivotTable(table_data_rows)

\* what the table tab shows
TabTableViewResult(df_master, assignments, s, range) ==
    IF df_master = <<>> THEN [message |-> "master_empty", table_df |-> EmptyFrame]
    ELSE IF s.cohorts = {}
    THEN [message |-> "select_cohort", table_df |-> EmptyFrame]
    ELSE LET table_df == prepare_data_for_table_view(df_master, assignments, s,
                                                     range[1], range[2])
         IN  [message |-> IF table_df = EmptyFrame THEN "no_data" ELSE "table",
              table_df |-> table_df]

\* a script run: the table tab is rendered for the date range of the sidebar
TabTableView ==
    /\ call.fn = "none"
    /\ call' = [fn |-> "tab_table_view", arg |-> call.arg,
                result |-> TabTableViewResult(master_schedule_df,
                                              teacher_assignments, sel, call.arg)]
    /\ UNCHANGED <<configVars, storeVars, viewVars>>

T_0315_2025 == <<"0","3","/","1","5","/","2","0","2","5">>

\* rows of the persisted schedules the table is checked on: two days of one
\* cohort, the later first; two activities on a day; another cohort; a month on
TableRowKinds ==
    {ScheduleRow(T_0315_2025, T_Cohort52, T_FSDI101),
     ScheduleRow(T_0314_2025, T_Cohort52, T_FSDI101),
     ScheduleRow(T_0314_2025, T_Cohort52, T_orientation),
     ScheduleRow(T_0314_2025, T_Ch54, T_FSDI),
     ScheduleRow(T_0401_25, T_Cohort52, T_Space)}

MaxTableRows == 3

TableFiles ==
    UNION {{WrittenFile(rows) : rows \in [1..n -> TableRowKinds]} :
              n \in 0..MaxTableRows}

LoadedTableFiles == {[file |-> f, df |-> LoadFromFile(f)] : f \in TableFiles}

\* table_view_start_date_widget and table_view_end_date_widget
TableRanges ==
    {<<[y |-> 2025, m |-> 3, d |-> 14], [y |-> 2025, m |-> 3, d |-> 31]>>,
     <<[y |-> 2025, m |-> 3, d |-> 15], [y |-> 2025, m |-> 4, d |-> 30]>>}

TableUnitChoices == {{}, {T_FSDI101}}
TableTeacherChoices == {{}, {T_Unassigned}}

InitTable ==
    \E lf \in LoadedTableFiles, p \in DeriveStores :
      \E c \in CohortChoices(lf.df), u \in TableUnitChoices,
         t \in TableTeacherChoices, range \in TableRanges :
        /\ master_file = lf.file
        /\ master_schedule_df = lf.df
        /\ cache = [valid |-> TRUE, df |-> lf.df]
        /\ writer = IdleWriter
        /\ lastAppend = NoAppend
        /\ event_colors = get_default_colors
        /\ teacher_assignments = p.assignments
        /\ all_known_teachers = p.teachers_found
        /\ config_file = NoConfigFile
        /\ lastMerge = NoMerge
        /\ sel = [cohorts |-> c, units |-> u, teachers |-> t, year |-> 0, month |-> 0]
        /\ view = NoView
        /\ call = [fn |-> "none", arg |-> range,
                   result |-> [message |-> "none", table_df |-> EmptyFrame]]

NextTable ==
    \/ TabTableView

SpecTable == InitTable /\ [][NextTable]_vars

----------------------------------------------------------------------------
(* Teacher blocks: the two parsers applied to a pasted block *)

T_102SamLee == <<"1","0","2"," ","S","a","m"," ","L","e","e">>

\* lines of the blocks: two headers, lines with a tab, a blank line, and a
\* line of a unit and a two-word name parted by spaces
ScopedLines == {T_Cohort52, T_Ch54, T_101Sam, T_102Jordan, T_Space, T_102SamLee}

ScopedBlocks == UNION {[1..n -> ScopedLines] : n \in 0..MaxBlockLines}

NoParse == [assignments |-> EmptyDict, current_cohort |-> None, teachers_found |-> {}]

InitBlocks ==
    /\ InitConfigDefault /\ InitStoreIdle
    /\ sel = NoSel /\ view = NoView
    /\ call \in {[fn |-> "none", arg |-> b, result |-> NoParse] : b \in ScopedBlocks}

\* the parser of app.py applied to the block
CallParseBlock ==
    /\ call.fn = "none"
    /\ call' = [fn |-> "parse_teacher_assignment_data", arg |-> call.arg,
                result |-> parse_teacher_assignment_data(call.arg)]
    /\ UNCHANGED <<configVars, storeVars, viewVars>>

\* the parser of app2.py applied to the block
CallParseBlock_app2 ==
    /\ call.fn = "none"
    /\ call' = [fn |-> "parse_teacher_assignment_data_app2", arg |-> call.arg,
                result |-> parse_teacher_assignment_data_app2(call.arg)]
    /\ UNCHANGED <<configVars, storeVars, viewVars>>

NextBlocks ==
    \/ CallParseBlock
    \/ CallParseBlock_app2

SpecBlocks == InitBlocks /\ [][NextBlocks]_vars

----------------------------------------------------------------------------
(* A session that appends pasted schedules, sets the sidebar and renders the
   calendar *)

\* the sidebar widgets set to options of the loaded frame
SidebarSelect ==
    /\ master_schedule_df # <<>>
    /\ \E c \in CohortChoices(master_schedule_df),
          u \in UnitChoices(master_schedule_df),
          t \in TeacherChoices(master_schedule_df, all_known_teachers),
          ym \in MonthChoices(master_schedule_df) :
            sel' = [cohorts |-> c, units |-> u, teachers |-> t,
                    year |-> ym[1], month |-> ym[2]]
    /\ UNCHANGED view
    /\ UNCHANGED <<configVars, storeVars, call>>

InitAppendDerive ==
    /\ InitConfigDefault /\ InitStoreIdle /\ InitViewNone
    /\ call = NoCall

NextAppendDerive ==
    \/ \E text \in ScheduleTexts : AddScheduleBegin(text)
    \/ AppendWrite
    \/ AppendFinish
    \/ SidebarSelect
    \/ TabCalendar

SpecAppendDerive == InitAppendDerive /\ [][NextAppendDerive]_vars

----------------------------------------------------------------------------
(* A session that renders the calendar of a month and the table of the same
   month *)

\* the first and the last day of a month
WholeMonth(year, month) ==
    <<[y |-> year, m |-> month, d |-> 1],
      [y |-> year, m |-> month, d |-> DaysIn(year, month)]>>

InitViews ==
    \E lf \in LoadedTableFiles, p \in DeriveStores :
      \E c \in CohortChoices(lf.df), u \in TableUnitChoices,
         t \in TableTeacherChoices, ym \in MonthChoices(lf.df) :
        /\ master_file = lf.file
        /\ master_schedule_df = lf.df
        /\ cache = [valid |-> TRUE, df |-> lf.df]
        /\ writer = IdleWriter
        /\ lastAppend = NoAppend
        /\ event_colors = get_default_colors
        /\ teacher_assignments = p.assignments
        /\ all_known_teachers = p.teachers_found
        /\ config_file = NoConfigFile
        /\ lastMerge = NoMerge
        /\ sel = [cohorts |-> c, units |-> u, teachers |-> t,
                  year |-> ym[1], month |-> ym[2]]
        /\ view = NoView
        /\ call = [fn |-> "none",
                   arg |-> IF ym[1] = 0 THEN <<NoDate, NoDate>>
                           ELSE WholeMonth(ym[1], ym[2]),
                   result |-> [message |-> "none", table_df |-> EmptyFrame]]

NextViews ==
    \/ TabCalendar
    \/ TabTableView

SpecViews == InitViews /\ [][NextViews]_vars

----------------------------------------------------------------------------
(* append_to_master_schedule applied to a frame it does not write *)

expected_cols == {"OriginalDateString", "CohortName", "UnitActivity"}

append_returns_EmptyIsSuccess(new_data_df) ==
    IF new_data_df.rows = <<>> \/ new_data_df.columns = {} THEN "True"
    ELSE IF ~(expected_cols \subseteq new_data_df.columns) THEN "False"
    ELSE "proceeds"

\* what append_to_master_schedule returns before it reads the file: None for
\* an empty frame, False for a frame without one of the columns
append_returns(new_data_df) ==
    IF new_data_df.rows = <<>> \/ new_data_df.columns = {} THEN "None"
    ELSE IF ~(expected_cols \subseteq new_data_df.columns) THEN "False"
    ELSE "proceeds"

\* frames with no rows, and frames without one of the three columns
UnwrittenFrames ==
    {[columns |-> {}, rows |-> <<>>],
     [columns |-> expected_cols, rows |-> <<>>],
     [columns |-> {"OriginalDateString", "CohortName"},
      rows |-> << [OriginalDateString |-> T_0314_2025, CohortName |-> T_Cohort52] >>],
     [columns |-> {"CohortName", "UnitActivity"},
      rows |-> << [CohortName |-> T_Cohort52, UnitActivity |-> T_FSDI101] >>]}

\* the function called with such a frame: it returns at line 79 or line 84
AppendCall(new_data_df) ==
    /\ append_returns(new_data_df) # "proceeds"
    /\ call' = [fn |-> "append_to_master_schedule", arg |-> new_data_df,
                result |-> append_returns(new_data_df)]
    /\ UNCHANGED <<configVars, storeVars, viewVars>>

InitAppendCall == InitStoreSpec /\ call = NoCall

NextAppendCall ==
    \/ Rerun
    \/ CacheExpire
    \/ \E text \in ScheduleTexts : AddScheduleBegin(text)
    \/ AppendWrite
    \/ AppendFinish
    \/ \E new_data_df \in UnwrittenFrames : AppendCall(new_data_df)

SpecAppendCall == InitAppendCall /\ [][NextAppendCall]_vars

----------------------------------------------------------------------------
(* A session started from the default config that updates the assignments *)

\* one pasted block for each result the blocks parse to
DistinctTeacherBlocks ==
    {CHOOSE pb \in ParsedTeacherBlocks : pb.raw_data # <<>> /\ pb.parsed = r :
        r \in {qb.parsed : qb \in {xb \in ParsedTeacherBlocks : xb.raw_data # <<>>}}}

NextMerges ==
    \/ \E pb \in DistinctTeacherBlocks : UpdateTeacherAssignments(pb.raw_data, pb.parsed)
    \/ UpdateTeacherAssignmentsNoText

SpecMerges == InitTeachers /\ [][NextMerges]_vars

\* C14: no step takes a name out of the known-teacher set, and an update
\* from a block leaves every teacher name parsed from the block in the set
C14_KnownTeachersGrow ==
    [][/\ all_known_teachers \subseteq all_known_teachers'
       /\ (lastMerge' # lastMerge => lastMerge'.found \subseteq all_known_teachers')]_vars

\* an update has added the names of its block to names known before it
C14_Witness ==
    /\ lastMerge # NoMerge
    /\ lastMerge.found # {}
    /\ lastMerge.found \subseteq all_known_teachers
    /\ all_known_teachers \ lastMerge.found # {}

\* a step that is a colour pick or an update of the assignments
ConfigMutated ==
    \/ event_colors' # event_colors
    \/ teacher_assignments' # teacher_assignments
    \/ all_known_teachers' # all_known_teachers
    \/ lastMerge' # lastMerge

\* C15: at the end of a colour pick or an update of the assignments,
\* config.json holds the three session values, and loading it gives them back
C15_ConfigPersisted ==
    [][ConfigMutated =>
          /\ config_file' = SavedConfigFile(event_colors', teacher_assignments',
                                            all_known_teachers')
          /\ load_config(config_file') =
               [event_colors |-> event_colors',
                teacher_assignments |-> teacher_assignments',
                all_known_teachers |-> all_known_teachers',
                error |-> FALSE]]_vars

\* a config file whose load raises: it cannot be read, it is no JSON, its top
\* level is no object, or its list of names is a value set() cannot iterate
ConfigLoadFails(file) ==
    /\ file.exists
    /\ \/ file.content # "object"
       \/ /\ "all_known_teachers" \in DOMAIN file.data
          /\ file.data["all_known_teachers"] = JsonNumber

\* the session values are as load_config left them: nothing was saved since
JustLoaded == call.fn = "load_config" /\ config_file = call.arg

\* C16: after a load of the config file that failed, the three session values
\* are the complete defaults, also when some of the values had been read
\* before the failure, the failure was reported, and the session goes on
C16_LoadFailureGivesDefaults ==
    (JustLoaded /\ ConfigLoadFails(call.arg)) =>
        /\ event_colors = get_default_colors
        /\ teacher_assignments = EmptyDict
        /\ all_known_teachers = {}
        /\ call.result = TRUE

\* the load failed at the list of names, after the colours and the
\* assignments of the file had been read
C16_Witness ==
    /\ JustLoaded
    /\ call.arg.content = "object"
    /\ ConfigLoadFails(call.arg)
    /\ "teacher_assignments" \in DOMAIN call.arg.data
    /\ call.arg.data["teacher_assignments"] # EmptyDict
    /\ teacher_assignments = EmptyDict
    /\ call.result = TRUE

\* the keys of the default colours: the categories and DEFAULT
ColorCategories == DOMAIN get_default_colors

C18_EntriesValid ==
    \A i \in 1..Len(writer.new) :
        /\ parse_master_schedule_date_string(writer.new[i].OriginalDateString) # NoDate
        /\ writer.new[i].CohortName # <<>>

\* the table tab has shown a table
TableShown == call.fn = "tab_table_view" /\ call.result.message = "table"

\* the entries of the frame in the date range and the selected cohorts that
\* the unit rule and the teacher rule let through
PassingEntries ==
    {i \in 1..Len(master_schedule_df) :
        LET row == master_schedule_df[i]
        IN  /\ DateLeq(call.arg[1], row.ParsedDate)
            /\ DateLeq(row.ParsedDate, call.arg[2])
            /\ row.CohortName \in sel.cohorts
            /\ UnitRule(UnitDisplay(row), sel.units)
            /\ TeacherRule(RowTeacher(row), sel.teachers)}

\* the display string of an entry followed by its teacher in brackets
DisplayWithTeacher(row) ==
    UnitDisplay(row) \o (IF RowTeacher(row) # <<>>
                         THEN <<" ", "(">> \o RowTeacher(row) \o <<")">> ELSE <<>>)

\* the table shown has one row per date and one column per cohort of the
\* passing entries, the rows in the order of the dates, and in each cell the
\* " / "-join of the distinct texts of the passing entries of its date and
\* cohort, empty when there is none
TableIsPivotOf(CellText(_)) ==
    LET table_df == call.result.table_df
        passing == {master_schedule_df[i] : i \in PassingEntries}
        dates == {r.ParsedDate : r \in passing}
        cohorts == {r.CohortName : r \in passing}
        Rank(d) == Cardinality({e \in dates : DateLeq(e, d)})
    IN  /\ Len(table_df.rows) = Cardinality(dates)
        /\ \A d \in dates : table_df.rows[Rank(d)].Date = FormatTableDate(d)
        /\ Len(table_df.columns) = Cardinality(cohorts)
        /\ SetOfList(table_df.columns) = cohorts
        /\ \A d \in dates, c \in cohorts :
              table_df.rows[Rank(d)].cells[c] =
                  JoinSlash(SortedList({CellText(r) :
                      r \in {q \in passing : q.ParsedDate = d /\ q.CohortName = c}}))

\* C17: the table shown is the pivot of the passing entries by date and
\* cohort, the rows ascending by date, each cell the " / "-join of the
\* de-duplicated display strings of its entries, each followed by the teacher
\* of the entry in brackets when it has one
C17_TablePivot == TableShown => TableIsPivotOf(DisplayWithTeacher)

\* C17 as stated: each cell is the join of the display strings alone
C17_TablePivot_AsStated == TableShown => TableIsPivotOf(UnitDisplay)

\* a table of two dates, the later first in the file, with a cell that joins
\* two activities, one of them with its teacher
C17_Witness ==
    /\ TableShown
    /\ Len(call.result.table_df.rows) >= 2
    /\ master_schedule_df[1].OriginalDateString = T_0315_2025
    /\ \E c \in SetOfList(call.result.table_df.columns) :
          /\ StrContains(call.result.table_df.rows[1].cells[c], <<" ", "/", " ">>)
          /\ StrContains(call.result.table_df.rows[1].cells[c], <<"(", "S", "a", "m", ")">>)

\* line i of the block is a cohort header
HeaderAt(b, i) == StrStrip(b[i]) # <<>> /\ IsCohortHeader(StrStrip(b[i]))

\* line i of the block is an assignment line of a unit token and a name
PairAt(b, i) ==
    LET line == StrStrip(b[i])
    IN  /\ line # <<>>
        /\ ~IsCohortHeader(line)
        /\ IsAssignmentLine(line)
        /\ Len(SplitFirstSpace(line)) = 2
        /\ StrStrip(SplitFirstSpace(line)[1]) # <<>>
        /\ StrStrip(SplitFirstSpace(line)[2]) # <<>>

PairKey(b, i) == UnitKeyOf(StrStrip(SplitFirstSpace(StrStrip(b[i]))[1]))
PairTeacher(b, i) == StrStrip(SplitFirstSpace(StrStrip(b[i]))[2])

\* the header line i is under: the last header before it, 0 when none
ScopeOf(b, i) ==
    LET hs == {h \in 1..(i - 1) : HeaderAt(b, h)}
    IN  IF hs = {} THEN 0 ELSE MaxOf(hs)

\* the pairs of a cohort: those of the assignment lines under the last
\* header of its name, a later line of a unit replacing an earlier one
ScopedPairs(b, c) ==
    LET last == MaxOf({h \in 1..Len(b) : HeaderAt(b, h) /\ StrStrip(b[h]) = c})
        under == {i \in 1..Len(b) : PairAt(b, i) /\ ScopeOf(b, i) = last}
    IN  [k \in {PairKey(b, i) : i \in under} |->
            PairTeacher(b, MaxOf({i \in under : PairKey(b, i) = k}))]

ScopedAssignments(b) ==
    [c \in {StrStrip(b[h]) : h \in {j \in 1..Len(b) : HeaderAt(b, j)}} |->
        ScopedPairs(b, c)]

\* the names of the assignment lines that are under a header
ScopedTeachers(b) ==
    {PairTeacher(b, i) : i \in {j \in 1..Len(b) : PairAt(b, j) /\ ScopeOf(b, j) > 0}}

\* C19: each of the two parsers returns, for each cohort, the pairs of the
\* assignment lines after the last header of that cohort in the block, and the
\* names of the assignment lines under a header; blank lines and lines before
\* any header give no pair and no name
C19_HeaderScoped ==
    call.fn \in {"parse_teacher_assignment_data", "parse_teacher_assignment_data_app2"}
        => /\ call.result.assignments = ScopedAssignments(call.arg)
           /\ call.result.teachers_found = ScopedTeachers(call.arg)

\* the calendar shown is the derivation of the frame and the selections as
\* they are now
ViewIsCurrent ==
    view = TabCalendarView(master_schedule_df, teacher_assignments, event_colors, sel)

\* C21: an entry appended k times is k rows of the file and, its date
\* resolved, k rows of the load that follows the append; the derivation emits,
\* for a row that passes the filters, as many events as the selected rows of
\* its date, cohort and unit, and these events are the same in title, date
\* and colour
C21_NoDeduplication ==
    /\ lastAppend.fresh =>
          LET before == IF writer.pre.exists /\ writer.pre.header = "ok"
                        THEN writer.pre.rows ELSE <<>>
              written == LoadedRows(master_file.rows)
          IN  /\ \A e \in RangeOf(writer.new) :
                    CountIn(master_file.rows, e)
                        = CountIn(before, e) + CountIn(writer.new, e)
              /\ \A x \in RangeOf(written) :
                    x.ParsedDate # NoDate =>
                        CountIn(master_schedule_df, x) = CountIn(written, x)
    /\ (Derived /\ ViewIsCurrent) =>
          \A i \in 1..Len(SelectedRows) :
              LET row == SelectedRows[i]
                  same == {j \in 1..Len(SelectedRows) :
                              RowKey(SelectedRows[j]) = RowKey(row)}
                  evs == {n \in 1..Len(view.events) :
                              EventKey(view.events[n]) = RowKey(row)}
              IN  (UnitRule(UnitDisplay(row), sel.units)
                   /\ TeacherRule(RowTeacher(row), sel.teachers)) =>
                      /\ Cardinality(evs) = Cardinality(same)
                      /\ \A n, m \in evs : view.events[n] = view.events[m]

\* the same entry was appended twice, the load returned it twice, and the
\* calendar shows two events for it
C21_Witness ==
    /\ lastAppend.fresh
    /\ Len(master_file.rows) = 2
    /\ master_file.rows[1] = master_file.rows[2]
    /\ Len(master_schedule_df) = 2
    /\ ViewIsCurrent
    /\ Len(view.events) = 2
    /\ view.events[1] = view.events[2]

\* the dates and the cohorts of the frame
FrameDates == {master_schedule_df[i].ParsedDate : i \in 1..Len(master_schedule_df)}
FrameCohorts == {master_schedule_df[i].CohortName : i \in 1..Len(master_schedule_df)}

\* the (date, cohort) pairs that have an event in the calendar shown
CalendarPairs ==
    {dc \in FrameDates \X FrameCohorts :
        \E n \in 1..Len(view.events) :
            /\ view.events[n].start = FormatYMD(dc[1])
            /\ view.events[n].extendedProps.cohort = dc[2]}

\* the (date, cohort) pairs whose cell of the table shown is not empty
TablePairs ==
    LET table_df == call.result.table_df
    IN  {dc \in FrameDates \X FrameCohorts :
            \E n \in 1..Len(table_df.rows) :
                /\ table_df.rows[n].Date = FormatTableDate(dc[1])
                /\ dc[2] \in SetOfList(table_df.columns)
                /\ table_df.rows[n].cells[dc[2]] # <<>>}

\* the calendar of the month and the table of the same month were both derived
BothDerived ==
    /\ Derived
    /\ call.fn = "tab_table_view"
    /\ call.result.message \in {"table", "no_data"}

\* C22: for one schedule, one store and one selection, the (date, cohort)
\* pairs with an event in the calendar of a month are the pairs with a cell
\* that is not empty in the table of that whole month, every event is of such a
\* pair and every row of the table is of such a date
C22_SameFilterDecisions ==
    BothDerived =>
        /\ CalendarPairs = TablePairs
        /\ \A n \in 1..Len(view.events) :
              \E dc \in CalendarPairs :
                  /\ view.events[n].start = FormatYMD(dc[1])
                  /\ view.events[n].extendedProps.cohort = dc[2]
        /\ \A n \in 1..Len(call.result.table_df.rows) :
              \E dc \in TablePairs :
                  call.result.table_df.rows[n].Date = FormatTableDate(dc[1])

\* both views show entries, and a selected row of the month is shown by neither
\* because the teacher filter holds it back
C22_Witness ==
    /\ BothDerived
    /\ CalendarPairs # {}
    /\ sel.teachers # {}
    /\ \E i \in 1..Len(SelectedRows) :
          /\ ~TeacherRule(RowTeacher(SelectedRows[i]), sel.teachers)
          /\ <<SelectedRows[i].ParsedDate, SelectedRows[i].CohortName>> \notin TablePairs

\* a frame with no entry, or with entries that lack one of the columns
EmptyOrLacksColumn(new_data_df) ==
    \/ new_data_df.rows = <<>>
    \/ \E col \in expected_cols : col \notin new_data_df.columns

\* C23: a call of append_to_master_schedule with an empty frame, or with a
\* frame that lacks one of the three columns, leaves the schedule file and the
\* cached load as they are and reports no success
C23_RejectedAppendChangesNothing ==
    [][(call' # call /\ call'.fn = "append_to_master_schedule"
            /\ EmptyOrLacksColumn(call'.arg))
          => /\ master_file' = master_file
             /\ cache' = cache
             /\ call'.result # "True"
             /\ lastAppend' = lastAppend]_vars

\* the function has returned False for a frame without a column while a file
\* with entries was persisted and its load cached
C23_Witness ==
    /\ call.fn = "append_to_master_schedule"
    /\ call.arg.rows # <<>>
    /\ call.result = "False"
    /\ master_file.exists /\ master_file.header = "ok" /\ master_file.rows # <<>>
    /\ cache.valid /\ cache.df # <<>>

\* C24: in a session started from the default config, after any updates of
\* the assignments from pasted blocks, every teacher name in the store is one
\* of the known teachers, and so one of the options of the teacher filter
C24_StoredTeachersKnown ==
    \A c \in DOMAIN teacher_assignments :
        \A k \in DOMAIN teacher_assignments[c] :
            /\ teacher_assignments[c][k] \in all_known_teachers
            /\ teacher_assignments[c][k] \in TeacherOptions(all_known_teachers)

\* after an update that replaced the map of a cohort, the store holds teachers
\* of two updates, and a name that is in the store no more is still known
C24_Witness ==
    /\ lastMerge.before # EmptyDict
    /\ Cardinality(UNION {{teacher_assignments[c][k] :
                               k \in DOMAIN teacher_assignments[c]} :
                           c \in DOMAIN teacher_assignments}) >= 2
    /\ \E t \in all_known_teachers :
          \A c \in DOMAIN teacher_assignments :
              \A k \in DOMAIN teacher_assignments[c] : teacher_assignments[c][k] # t

====
